---------------------------- MODULE Spec2Model ----------------------------
(***************************************************************************)
(* The two scripts of Algo_Trade_v1:                                       *)
(*   pre_pump_detector.py  PrePumpDetector.analyze_symbol and main()       *)
(*   analyzer_test.py      analyze_coin and main()                         *)
(* One script runs per behaviour (prog).  The exchange and the analysers   *)
(* of libs/ are the environment: what they return is drawn when the call   *)
(* is made.  A candle is abstracted to the one thing the scripts read      *)
(* from it, whether the composite pre-pump condition holds on that bar.    *)
(* Symbol names are 1..MaxSymbols, ordered as their names are ordered.     *)
(***************************************************************************)
EXTENDS Integers, Sequences, FiniteSets

VARIABLES
  prog,          \* which script runs
  limit,         \* how many candles the fetcher returns at most
  symbols,       \* the batch: get_all_usdt_pairs() / DEFAULT_SYMBOLS
  pc,            \* control point of the running script
  i,             \* 1-based position of the loop in the batch
  stages,        \* stages called so far for the current symbol, in call order
  df,            \* the local df of analyze_symbol / analyze_coin
  ranking,       \* the local ranking of main() (pre_pump_detector)
  ranked_from,   \* which stage produced the frame handed to the ranking stage
  all_signals,   \* main(): list of latest_signals frames
  all_rankings,  \* main(): list of ranking dicts
  rankings_df,   \* main(): the sorted ranking table
  saved,         \* CSV files written so far
  row,           \* analyze_coin: the signal row being converted
  signals,       \* analyze_coin: the list of signal events
  results,       \* analyzer_test main(): what analyze_coin returned
  excluded,      \* the symbol left out of the companion run (0: no companion)
  all_signals2,  \* all_signals of the companion run (same batch without excluded)
  all_rankings2  \* all_rankings of the companion run

vars == <<prog, limit, symbols, pc, i, stages, df, ranking, ranked_from,
          all_signals, all_rankings, rankings_df, saved, row, signals,
          results, excluded, all_signals2, all_rankings2>>

-----------------------------------------------------------------------------
(* Bounds *)

MaxSymbols == 2
MaxCoins == 1
MaxBars == 1
MaxScore == 1
SigBars == 6
CoinBars == 2

(* Program constants *)

TailRows == 5

Symbols == 1..MaxSymbols
Scores == 0..MaxScore

PatternList == <<"hammer", "morning_star", "engulfing", "doji">>

PatternNames == {PatternList[k] : k \in 1..Len(PatternList)}

\* What a pattern column can hold on a row: a boolean, the missing-value
\* marker of a warm-up bar (NaN), or no such column at all.
FlagValues == {"True", "False", "NaN", "absent"}


-----------------------------------------------------------------------------
(* Values *)

Unset == [kind |-> "unset", bars |-> <<>>, valid |-> TRUE, by |-> "none"]

NoneFrame == [kind |-> "None", bars |-> <<>>, valid |-> TRUE, by |-> "none"]

\* A DataFrame as get_historical_data returns it.  bars[k] says whether the
\* composite pre-pump condition holds on candle k; valid is FALSE for a series
\* with non-monotonic or duplicate timestamps or a non-positive price or volume.
Frame(bars, valid) == [kind |-> "frame", bars |-> bars, valid |-> valid, by |-> "fetch"]

BarVectors(n) == UNION {[1..m -> BOOLEAN] : m \in 0..n}

\* Everything the fetcher can hand back for one symbol: None, an empty frame,
\* or a frame of up to n candles.  An empty frame has nothing to be invalid in.
Fetched(n) ==
  {NoneFrame} \cup ({Frame(b, v) : b \in BarVectors(n), v \in BOOLEAN} \ {Frame(<<>>, FALSE)})

UnsetRanking == [kind |-> "unset", total_score |-> 0]

NoneRanking == [kind |-> "None", total_score |-> 0]

\* What PumpRankingAnalyzer.analyze_symbol can return: None or a dict with scores.
Rankings == {NoneRanking} \cup {[kind |-> "dict", total_score |-> t] : t \in Scores}

NoRow == [bar |-> 0, k |-> 0, flag |-> "False", patterns |-> <<>>]

NoResults == [kind |-> "unset", symbol |-> 0, signals |-> <<>>]

NoneResults == [kind |-> "None", symbol |-> 0, signals |-> <<>>]

\* Batches: every ordering of every subset of the symbols.
Batches(n) ==
  {s \in UNION {[1..m -> Symbols] : m \in 0..n} :
     \A j, k \in DOMAIN s : j # k => s[j] # s[k]}

-----------------------------------------------------------------------------
(* pandas and Python, as the scripts use them *)

RECURSIVE TrueRows(_, _)
\* df[df['pre_pump_signal']]: the index labels of the rows whose flag is set, in order.
TrueRows(bars, k) ==
  IF k > Len(bars) THEN <<>>
  ELSE IF bars[k] THEN <<k>> \o TrueRows(bars, k + 1)
  ELSE TrueRows(bars, k + 1)

SignalRows(frame) == TrueRows(frame.bars, 1)

\* Mutant of TailOf: head(n) in place of tail(n).
HeadOf(rows, n) == IF Len(rows) <= n THEN rows ELSE SubSeq(rows, 1, n)

\* DataFrame.tail(n): the last n rows, all of them when there are fewer.
TailOf(rows, n) ==
  IF Len(rows) <= n THEN rows ELSE SubSeq(rows, Len(rows) - n + 1, Len(rows))

\* bool(x) of what row.get(pattern, False) returns: an absent column gives the
\* default False; NaN is a non-zero float, so it is truthy.
Truthy(v) == v \in {"True", "NaN"}

\* row.get(pattern, False): the column's value, the default when there is none.
RowGet(v) == IF v = "absent" THEN "False" ELSE v

\* One turn of [pattern for pattern in [...] if row.get(pattern, False)]: the
\* list so far, with pattern p kept when the value v of its column is truthy.
Keep(patterns, p, v) == IF Truthy(RowGet(v)) THEN Append(patterns, p) ELSE patterns

Permutations(n) == {f \in [1..n -> 1..n] : \A a, b \in 1..n : a # b => f[a] # f[b]}

\* Mutant of SortValuesDesc: ascending=True.
SortValuesAsc(rs) ==
  {[k \in 1..Len(rs) |-> rs[f[k]]] : f \in
     {g \in Permutations(Len(rs)) :
        \A a, b \in 1..Len(rs) : a < b => rs[g[a]].total_score <= rs[g[b]].total_score}}

\* sort_values(by='total_score', ascending=False) with the default, unstable
\* sort kind: any arrangement of the rows with the scores non-increasing.
SortValuesDesc(rs) ==
  {[k \in 1..Len(rs) |-> rs[f[k]]] : f \in
     {g \in Permutations(Len(rs)) :
        \A a, b \in 1..Len(rs) : a < b => rs[g[a]].total_score >= rs[g[b]].total_score}}

\* Mutant of CollectInto: the emptiness test reads the accumulated all_signals
\* as well, so a symbol without signals is collected once any symbol had one.
CollectIntoCarry(sigs, ranks, s, frame, rk) ==
  IF frame.kind # "None" /\ rk.kind # "None"
  THEN LET latest_signals == TailOf(SignalRows(frame), TailRows)
       IN  IF latest_signals # <<>> \/ sigs # <<>>
           THEN << Append(sigs, [symbol |-> s, rows |-> latest_signals]),
                   Append(ranks, [symbol |-> s, total_score |-> rk.total_score]) >>
           ELSE <<sigs, ranks>>
  ELSE <<sigs, ranks>>

\* Mutant of CollectInto: the ranking is appended one indentation level out,
\* for every analysed symbol, with or without signals.
CollectIntoDedented(sigs, ranks, s, frame, rk) ==
  IF frame.kind # "None" /\ rk.kind # "None"
  THEN LET latest_signals == TailOf(SignalRows(frame), TailRows)
           record == [symbol |-> s, total_score |-> rk.total_score]
       IN  IF latest_signals # <<>>
           THEN << Append(sigs, [symbol |-> s, rows |-> latest_signals]),
                   Append(ranks, record) >>
           ELSE <<sigs, Append(ranks, record)>>
  ELSE <<sigs, ranks>>

\* The body of main()'s loop after analyze_symbol returned (df, rk) for symbol s:
\* the pair of lists <<all_signals, all_rankings>> it leaves.
CollectInto(sigs, ranks, s, frame, rk) ==
  IF frame.kind # "None" /\ rk.kind # "None"
  THEN LET latest_signals == TailOf(SignalRows(frame), TailRows)
       IN  IF latest_signals # <<>>
           THEN << Append(sigs, [symbol |-> s, rows |-> latest_signals]),
                   Append(ranks, [symbol |-> s, total_score |-> rk.total_score]) >>
           ELSE <<sigs, ranks>>
  ELSE <<sigs, ranks>>

-----------------------------------------------------------------------------
(* pre_pump_detector.py *)

\* main(), lines 57-67: the batch is what get_all_usdt_pairs returned.
GetPairs ==
  /\ prog = "pre_pump_detector" /\ pc = "start"
  /\ IF symbols = <<>> THEN pc' = "done" ELSE pc' = "loop"
  /\ UNCHANGED <<prog, limit, symbols, i, stages, df, ranking, ranked_from,
                 all_signals, all_rankings, rankings_df, saved, row, signals,
                 results, excluded, all_signals2, all_rankings2>>

\* main(), lines 70-74: the for loop takes the next symbol and calls analyze_symbol,
\* or leaves the loop.
NextSymbol ==
  /\ prog = "pre_pump_detector" /\ pc = "loop"
  /\ IF i <= Len(symbols)
     THEN pc' = "fetch" /\ stages' = <<>>
     ELSE pc' = "save" /\ UNCHANGED stages
  /\ UNCHANGED <<prog, limit, symbols, i, df, ranking, ranked_from,
                 all_signals, all_rankings, rankings_df, saved, row, signals,
                 results, excluded, all_signals2, all_rankings2>>

\* analyze_symbol, lines 32-34: fetch; on None return (None, None).
FetchSymbol ==
  /\ prog = "pre_pump_detector" /\ pc = "fetch"
  /\ \E f \in Fetched(limit) :
       /\ df' = f
       /\ IF f.kind = "None"
          THEN ranking' = NoneRanking /\ pc' = "collect"
          ELSE ranking' = UnsetRanking /\ pc' = "analyze_data"
  /\ stages' = Append(stages, "fetch")
  /\ ranked_from' = "none"
  /\ UNCHANGED <<prog, limit, symbols, i, all_signals, all_rankings, rankings_df,
                 saved, row, signals, results, excluded, all_signals2, all_rankings2>>

\* Mutant of AnalyzeData: the detect_signals call is missing, the frame goes
\* from analyze_data straight to the next consumer.
AnalyzeDataThenRank ==
  /\ pc = "analyze_data"
  /\ df' = [df EXCEPT !.by = "analyze_data"]
  /\ stages' = Append(stages, "analyze_data")
  /\ pc' = IF prog = "pre_pump_detector" THEN "ranking" ELSE "rows"
  /\ UNCHANGED <<prog, limit, symbols, i, ranking, ranked_from, all_signals,
                 all_rankings, rankings_df, saved, row, signals, results,
                 excluded, all_signals2, all_rankings2>>

\* SignalAnalyzer.analyze_data(df): analyze_symbol line 37, analyze_coin line 80.
AnalyzeData ==
  /\ pc = "analyze_data"
  /\ df' = [df EXCEPT !.by = "analyze_data"]
  /\ stages' = Append(stages, "analyze_data")
  /\ pc' = "detect_signals"
  /\ UNCHANGED <<prog, limit, symbols, i, ranking, ranked_from, all_signals,
                 all_rankings, rankings_df, saved, row, signals, results,
                 excluded, all_signals2, all_rankings2>>

\* SignalAnalyzer.detect_signals(df): analyze_symbol line 40, analyze_coin line 81
\* (where the result is named signals_df; df here stands for it from then on).
DetectSignals ==
  /\ pc = "detect_signals"
  /\ df' = [df EXCEPT !.by = "detect_signals"]
  /\ stages' = Append(stages, "detect_signals")
  /\ pc' = IF prog = "pre_pump_detector" THEN "ranking" ELSE "rows"
  /\ UNCHANGED <<prog, limit, symbols, i, ranking, ranked_from, all_signals,
                 all_rankings, rankings_df, saved, row, signals, results,
                 excluded, all_signals2, all_rankings2>>

\* analyze_symbol, lines 43-45: rank the frame and return (df, ranking_analysis).
RankSymbol ==
  /\ prog = "pre_pump_detector" /\ pc = "ranking"
  /\ \E r \in Rankings : ranking' = r
  /\ ranked_from' = df.by
  /\ stages' = Append(stages, "ranking")
  /\ pc' = "collect"
  /\ UNCHANGED <<prog, limit, symbols, i, df, all_signals, all_rankings,
                 rankings_df, saved, row, signals, results, excluded,
                 all_signals2, all_rankings2>>

\* main(), lines 76-95, for the symbol just analysed.  The companion run, which
\* has every symbol of the batch but `excluded`, executes the same lines on the
\* same (df, ranking) for every symbol it has.
Collect ==
  /\ prog = "pre_pump_detector" /\ pc = "collect"
  /\ LET out == CollectInto(all_signals, all_rankings, symbols[i], df, ranking)
     IN  all_signals' = out[1] /\ all_rankings' = out[2]
  /\ IF excluded # 0 /\ excluded # symbols[i]
     THEN LET out2 == CollectInto(all_signals2, all_rankings2, symbols[i], df, ranking)
          IN  all_signals2' = out2[1] /\ all_rankings2' = out2[2]
     ELSE UNCHANGED <<all_signals2, all_rankings2>>
  /\ i' = i + 1
  /\ pc' = "loop"
  /\ UNCHANGED <<prog, limit, symbols, stages, df, ranking, ranked_from,
                 rankings_df, saved, row, signals, results, excluded>>

\* main(), lines 98-108: save the signals, build and sort the ranking table.
SaveSignals ==
  /\ prog = "pre_pump_detector" /\ pc = "save" /\ all_signals # <<>>
  /\ saved' = saved \cup {"signals"}
  /\ rankings_df' \in SortValuesDesc(all_rankings)
  /\ pc' = "display"
  /\ UNCHANGED <<prog, limit, symbols, i, stages, df, ranking, ranked_from,
                 all_signals, all_rankings, row, signals, results, excluded,
                 all_signals2, all_rankings2>>

\* main(), lines 110-120: print the ranks in table order and save the table.
SaveRankings ==
  /\ prog = "pre_pump_detector" /\ pc = "display"
  /\ saved' = saved \cup {"rankings"}
  /\ pc' = "done"
  /\ UNCHANGED <<prog, limit, symbols, i, stages, df, ranking, ranked_from,
                 all_signals, all_rankings, rankings_df, row, signals, results,
                 excluded, all_signals2, all_rankings2>>

\* main(), lines 121-122.
NoSignals ==
  /\ prog = "pre_pump_detector" /\ pc = "save" /\ all_signals = <<>>
  /\ pc' = "done"
  /\ UNCHANGED <<prog, limit, symbols, i, stages, df, ranking, ranked_from,
                 all_signals, all_rankings, rankings_df, saved, row, signals,
                 results, excluded, all_signals2, all_rankings2>>

-----------------------------------------------------------------------------
(* analyzer_test.py *)

\* The stages analyze_coin calls between the fetch and the signal analysis, in
\* source order (lines 55-76).
CoinStages ==
  << "analyze_trend", "analyze_momentum", "analyze_volatility",
     "detect_candle_patterns", "get_fibonacci_levels", "volume_profile",
     "fundamental_volume", "fundamental_trend", "get_fundamental_metrics" >>

\* The stages among them whose result is assigned back to df.
Reassigning ==
  { "analyze_trend", "analyze_momentum", "analyze_volatility",
    "detect_candle_patterns", "fundamental_volume", "fundamental_trend" }

\* main(), lines 183-184: the for loop takes the next coin and calls analyze_coin.
NextCoin ==
  /\ prog = "analyzer_test" /\ pc = "loop"
  /\ IF i <= Len(symbols) THEN pc' = "fetch" ELSE pc' = "done"
  /\ UNCHANGED <<prog, limit, symbols, i, stages, df, ranking, ranked_from,
                 all_signals, all_rankings, rankings_df, saved, row, signals,
                 results, excluded, all_signals2, all_rankings2>>

\* analyze_coin, lines 48-51: fetch; on None or an empty frame return None.
FetchCoin ==
  /\ prog = "analyzer_test" /\ pc = "fetch"
  /\ \E f \in Fetched(limit) :
       /\ df' = f
       /\ IF f.kind = "None" \/ f.bars = <<>>
          THEN results' = NoneResults /\ pc' = "print"
          ELSE results' = NoResults /\ pc' = CoinStages[1]
  /\ stages' = Append(stages, "fetch")
  /\ UNCHANGED <<prog, limit, symbols, i, ranking, ranked_from, all_signals,
                 all_rankings, rankings_df, saved, row, signals, excluded,
                 all_signals2, all_rankings2>>

\* analyze_coin, lines 55-76: one technical, volume-profile or fundamental stage.
CoinStage ==
  /\ prog = "analyzer_test"
  /\ \E k \in 1..Len(CoinStages) :
       /\ pc = CoinStages[k]
       /\ pc' = IF k < Len(CoinStages) THEN CoinStages[k + 1] ELSE "analyze_data"
  /\ stages' = Append(stages, pc)
  /\ df' = IF pc \in Reassigning THEN [df EXCEPT !.by = pc] ELSE df
  /\ UNCHANGED <<prog, limit, symbols, i, ranking, ranked_from, all_signals,
                 all_rankings, rankings_df, saved, row, signals, results,
                 excluded, all_signals2, all_rankings2>>

\* analyze_coin, lines 84-87: the loop over signal_rows takes the next row, or ends.
NextRow ==
  /\ prog = "analyzer_test" /\ pc = "rows"
  /\ LET signal_rows == SignalRows(df)
         n == Len(signals)
     IN  IF n < Len(signal_rows)
         THEN /\ row' = [bar |-> signal_rows[n + 1], k |-> 0, flag |-> "False",
                         patterns |-> <<>>]
              /\ pc' = "patterns"
         ELSE pc' = "results" /\ UNCHANGED row
  /\ UNCHANGED <<prog, limit, symbols, i, stages, df, ranking, ranked_from,
                 all_signals, all_rankings, rankings_df, saved, signals,
                 results, excluded, all_signals2, all_rankings2>>

\* analyze_coin, lines 93-96: one turn of the list comprehension.  The pattern
\* column of the row is read here, so its value is drawn here.
ReadPattern ==
  /\ prog = "analyzer_test" /\ pc = "patterns" /\ row.k < Len(PatternList)
  /\ \E v \in FlagValues :
       row' = [row EXCEPT !.k = row.k + 1, !.flag = v,
                          !.patterns = Keep(row.patterns, PatternList[row.k + 1], v)]
  /\ UNCHANGED <<prog, limit, symbols, pc, i, stages, df, ranking, ranked_from,
                 all_signals, all_rankings, rankings_df, saved, signals,
                 results, excluded, all_signals2, all_rankings2>>

\* analyze_coin, lines 88-97: append the event built from the row.
AppendEvent ==
  /\ prog = "analyzer_test" /\ pc = "patterns" /\ row.k = Len(PatternList)
  /\ signals' = Append(signals, [bar |-> row.bar, patterns |-> row.patterns])
  /\ pc' = "rows"
  /\ UNCHANGED <<prog, limit, symbols, i, stages, df, ranking, ranked_from,
                 all_signals, all_rankings, rankings_df, saved, row, results,
                 excluded, all_signals2, all_rankings2>>

\* analyze_coin, lines 100-118: build and return the results.
ReturnResults ==
  /\ prog = "analyzer_test" /\ pc = "results"
  /\ results' = [kind |-> "dict", symbol |-> symbols[i], signals |-> signals]
  /\ pc' = "print"
  /\ UNCHANGED <<prog, limit, symbols, i, stages, df, ranking, ranked_from,
                 all_signals, all_rankings, rankings_df, saved, row, signals,
                 excluded, all_signals2, all_rankings2>>

\* main(), line 185, and the loop's step to the next coin.  The call frame of
\* analyze_coin is gone and results is not read again before it is reassigned.
PrintResults ==
  /\ prog = "analyzer_test" /\ pc = "print"
  /\ i' = i + 1
  /\ pc' = "loop"
  /\ stages' = <<>> /\ df' = Unset /\ row' = NoRow /\ signals' = <<>>
  /\ results' = NoResults
  /\ UNCHANGED <<prog, limit, symbols, ranking, ranked_from, all_signals,
                 all_rankings, rankings_df, saved, excluded, all_signals2,
                 all_rankings2>>

-----------------------------------------------------------------------------
(* Specifications *)

Locals ==
  /\ i = 1
  /\ stages = <<>>
  /\ df = Unset
  /\ ranking = UnsetRanking
  /\ ranked_from = "none"
  /\ all_signals = <<>>
  /\ all_rankings = <<>>
  /\ rankings_df = <<>>
  /\ saved = {}
  /\ row = NoRow
  /\ signals = <<>>
  /\ results = NoResults
  /\ all_signals2 = <<>>
  /\ all_rankings2 = <<>>

\* pre_pump_detector over any batch of short series, or over one symbol with a
\* series long enough to hold more than TailRows signal bars.
InitDetector ==
  /\ prog = "pre_pump_detector"
  /\ pc = "start"
  /\ \/ symbols \in Batches(MaxSymbols) /\ limit = MaxBars
     \/ symbols \in {<<s>> : s \in Symbols} /\ limit = SigBars
  /\ excluded = 0
  /\ Locals

InitTest ==
  /\ prog = "analyzer_test"
  /\ pc = "loop"
  /\ symbols \in Batches(MaxCoins)
  /\ limit = CoinBars
  /\ excluded = 0
  /\ Locals

Init == InitDetector \/ InitTest

NextDetector ==
  \/ GetPairs \/ NextSymbol \/ FetchSymbol \/ AnalyzeData \/ DetectSignals
  \/ RankSymbol \/ Collect \/ SaveSignals \/ SaveRankings \/ NoSignals

NextTest ==
  \/ NextCoin \/ FetchCoin \/ CoinStage \/ NextRow \/ ReadPattern
  \/ AppendEvent \/ ReturnResults \/ PrintResults

Next == NextDetector \/ NextTest

Spec == Init /\ [][Next]_vars

\* Two runs of pre_pump_detector over the same candle data: the batch, and the
\* batch without one of its symbols.
InitIso ==
  /\ prog = "pre_pump_detector"
  /\ pc = "start"
  /\ symbols \in Batches(MaxSymbols)
  /\ limit = MaxBars
  /\ excluded \in {symbols[k] : k \in DOMAIN symbols}
  /\ Locals

SpecIso == InitIso /\ [][NextDetector]_vars

-----------------------------------------------------------------------------
(* Claims *)

Detector == prog = "pre_pump_detector"

\* The ranking table exists: SaveSignals has built and sorted it.
Ranked == Detector /\ pc \in {"display", "done"} /\ all_signals # <<>>

Range(seq) == {seq[k] : k \in DOMAIN seq}

\* C1: in the ranked output of main(), a symbol with a higher total_score stands
\* strictly before every symbol with a lower one, and the output holds exactly
\* the collected records.
C1_RankedByScoreDescending ==
  Ranked =>
    /\ Len(rankings_df) = Len(all_rankings)
    /\ Range(rankings_df) = Range(all_rankings)
    /\ \A a, b \in DOMAIN rankings_df :
         rankings_df[a].total_score > rankings_df[b].total_score => a < b

\* C1 witness: a finished run whose two collected symbols came in ascending
\* score order and were ranked.
C1_Witness ==
  /\ Ranked /\ pc = "done"
  /\ Len(all_rankings) = 2
  /\ all_rankings[1].total_score < all_rankings[2].total_score

\* C2: ranked symbols with equal total_score stand in ascending symbol-name order.
C2_TiesBySymbolAscending ==
  Ranked =>
    \A a, b \in DOMAIN rankings_df :
      (a < b /\ rankings_df[a].total_score = rankings_df[b].total_score)
        => rankings_df[a].symbol < rankings_df[b].symbol

\* The symbol analysed last did not fail upstream: data came, it was not empty,
\* the series was valid and the ranking stage returned a record.
AnalysedOk == df.kind = "frame" /\ df.bars # <<>> /\ df.valid /\ ranking.kind = "dict"

\* C3: at the end of the run, a symbol that did not fail upstream has exactly
\* one Ranking Record in the ranking output, with or without signal events
\* (stated for the last symbol of the batch, whose df and ranking main() still holds).
C3_OneRecordPerAnalysedSymbol ==
  (Detector /\ pc = "done" /\ symbols # <<>> /\ AnalysedOk) =>
    Cardinality({k \in DOMAIN rankings_df :
                   rankings_df[k].symbol = symbols[Len(symbols)]}) = 1

NoData == df.kind = "None" \/ (df.kind = "frame" /\ df.bars = <<>>)

OnlyFetchRan == \A k \in DOMAIN stages : stages[k] = "fetch"

\* C4: when the fetch yields None or an empty series, no analysis stage runs on
\* the symbol, it is in neither output list, and the loop goes on.
C4_NoDataShortCircuits ==
  NoData =>
    /\ OnlyFetchRan
    /\ (Detector /\ pc = "loop" /\ i > 1) =>
         \A k \in DOMAIN all_rankings : all_rankings[k].symbol # symbols[i - 1]

\* C5: an invalid series makes the symbol's pipeline fail at once: no indicator,
\* signal or ranking stage runs on it and it is not ranked.
C5_InvalidSeriesFailsImmediately ==
  (df.kind = "frame" /\ ~df.valid) =>
    /\ OnlyFetchRan
    /\ (Detector /\ pc = "loop" /\ i > 1) =>
         \A k \in DOMAIN all_rankings : all_rankings[k].symbol # symbols[i - 1]

StrictlyIncreasing(seq) == \A a, b \in DOMAIN seq : a < b => seq[a] < seq[b]

QualifyingBars == {k \in DOMAIN df.bars : df.bars[k]}

\* The rows main() collected for the symbol analysed last (none: the empty list).
CollectedRows ==
  IF \E k \in DOMAIN all_signals : all_signals[k].symbol = symbols[i - 1]
  THEN (CHOOSE e \in Range(all_signals) : e.symbol = symbols[i - 1]).rows
  ELSE <<>>

EventBars(evs) == [k \in DOMAIN evs |-> evs[k].bar]

\* The symbol analysed last by main() came back with a frame and a ranking.
JustCollected == Detector /\ pc = "loop" /\ i > 1 /\ df.kind = "frame" /\ ranking.kind = "dict"

\* The coin analysed by analyze_coin came back with results.
JustReturned == prog = "analyzer_test" /\ pc = "print" /\ results.kind = "dict"

\* C7 as claimed: the events reported for a symbol are exactly its qualifying
\* bars, in bar order, in analyze_coin and in what main() collects.
C7_EventsAreExactlyQualifyingBars ==
  /\ JustReturned =>
       /\ StrictlyIncreasing(EventBars(results.signals))
       /\ Range(EventBars(results.signals)) = QualifyingBars
  /\ JustCollected =>
       /\ StrictlyIncreasing(CollectedRows)
       /\ Range(CollectedRows) = QualifyingBars

\* C7 as amended: analyze_coin reports exactly the qualifying bars, in bar order;
\* main() collects the latest TailRows qualifying bars (all of them when there are
\* no more than TailRows), in bar order.
C7_EventsAreLatestQualifyingBars ==
  /\ JustReturned =>
       /\ StrictlyIncreasing(EventBars(results.signals))
       /\ Range(EventBars(results.signals)) = QualifyingBars
  /\ JustCollected =>
       /\ StrictlyIncreasing(CollectedRows)
       /\ Range(CollectedRows) \subseteq QualifyingBars
       /\ Len(CollectedRows) =
            IF Cardinality(QualifyingBars) <= TailRows
            THEN Cardinality(QualifyingBars) ELSE TailRows
       /\ \A q \in QualifyingBars \ Range(CollectedRows) :
            \A c \in Range(CollectedRows) : q < c

\* C7 witness: main() collected from a series with more than TailRows qualifying bars.
C7_Witness ==
  /\ JustCollected
  /\ Cardinality(QualifyingBars) > TailRows
  /\ CollectedRows # <<>>

IsPrefix(a, b) == Len(a) <= Len(b) /\ \A k \in DOMAIN a : a[k] = b[k]

\* C8: the stages called for a symbol are, in order and each once, an initial
\* part of the pipeline (fetch, analyze_data, detect_signals, ranking in
\* analyze_symbol; fetch, the indicators, volume profile, fundamentals, signal
\* analysis and detection in analyze_coin), and the ranking stage is handed the
\* frame detect_signals returned.
C8_StagesRunDownstreamOnce ==
  /\ Detector =>
       IsPrefix(stages, <<"fetch", "analyze_data", "detect_signals", "ranking">>)
  /\ prog = "analyzer_test" =>
       IsPrefix(stages,
         << "fetch", "analyze_trend", "analyze_momentum", "analyze_volatility",
            "detect_candle_patterns", "get_fibonacci_levels", "volume_profile",
            "fundamental_volume", "fundamental_trend", "get_fundamental_metrics",
            "analyze_data", "detect_signals" >>)
  /\ ranked_from \in {"none", "detect_signals"}

\* C8 witness: analyze_symbol ran its whole pipeline and the ranking stage was fed.
C8_Witness ==
  /\ Detector /\ Len(stages) = 4 /\ ranked_from = "detect_signals"

\* C9: an event's patterns list holds a pattern name exactly when that pattern's
\* flag is true on the bar; a false, absent or undefined flag adds no name
\* (stated for the pattern the comprehension examined last).
C9_PatternsAreTrueFlags ==
  (prog = "analyzer_test" /\ pc = "patterns" /\ row.k >= 1) =>
    /\ Range(row.patterns) \subseteq PatternNames
    /\ PatternList[row.k] \in Range(row.patterns) <=> row.flag = "True"

Processed == {symbols[k] : k \in 1..(i - 1)}

\* C10: all_signals and all_rankings have the same length and the same symbol
\* at every position; no symbol appears twice; only processed symbols appear,
\* and the one analysed last appears only if its analysis succeeded and one of
\* its bars has pre_pump_signal set; the ranking table is built and files are
\* saved only when some symbol was collected.
C10_SignalsAndRankingsAligned ==
  Detector =>
    /\ Len(all_signals) = Len(all_rankings)
    /\ \A k \in DOMAIN all_signals : all_signals[k].symbol = all_rankings[k].symbol
    /\ \A a, b \in DOMAIN all_rankings :
         a # b => all_rankings[a].symbol # all_rankings[b].symbol
    /\ \A k \in DOMAIN all_rankings : all_rankings[k].symbol \in Processed
    /\ (pc = "loop" /\ i > 1 /\ \E k \in DOMAIN all_rankings :
                                   all_rankings[k].symbol = symbols[i - 1])
         => (df.kind = "frame" /\ ranking.kind = "dict" /\ QualifyingBars # {})
    /\ (saved # {} \/ rankings_df # <<>>) => all_signals # <<>>
    /\ (pc = "done" /\ all_signals = <<>>) => (saved = {} /\ rankings_df = <<>>)
    /\ (pc = "done" /\ all_signals # <<>>) => saved = {"signals", "rankings"}

\* C10 witness: a finished run that collected one of its two symbols and saved.
C10_Witness ==
  /\ Detector /\ pc = "done"
  /\ Len(symbols) = 2 /\ Len(all_signals) = 1
  /\ "rankings" \in saved

=============================================================================
